---- MODULE Spec2Model ----
(***************************************************************************)
(* State-machine model of src/whatsapp_ai_chatbot.py: the SQLite tables     *)
(* users and conversations, the process-wide rate limiter behind            *)
(* check_rate_limit, the temporary files of handle_message and one record   *)
(* per inbound WhatsApp message (the handler coroutine started for it).     *)
(*                                                                          *)
(* The coroutines run on one asyncio event loop.  A coroutine only yields   *)
(* at an await that really suspends: message.downloadMedia(), the provider  *)
(* call and message.reply().  The helpers get_user_data,                    *)
(* get_conversation_history, update_user_data and add_to_conversation are   *)
(* `async def` without any suspending await, so everything between two      *)
(* suspension points is one atomic action here.                             *)
(*                                                                          *)
(* Texts are sequences of characters (one-character strings).  A run of     *)
(* ordinary prose that the program never parses (the fixed replies, the     *)
(* PDF template) is written as one element; none of them starts with "!".   *)
(***************************************************************************)
EXTENDS Naturals, Integers, Sequences, FiniteSets, TLC

VARIABLES
    events,         \* one record per inbound message, in arrival order
    users,          \* table users: sequence of rows [id, provider, last_request]
    conversations,  \* table conversations: sequence of rows, index = AUTOINCREMENT id
    lastTs,         \* the latest reading of datetime.now()
    num_calls,      \* ratelimit decorator: calls counted in the current period
    last_reset,     \* ratelimit decorator: start of the current period (monotonic clock)
    now,            \* monotonic clock, in seconds
    tempFiles,      \* events whose NamedTemporaryFile(delete=False) exists on disk
    faults,         \* whether SQLite operations may raise in this run
    coarse          \* whether two readings of datetime.now() can be equal in this run

vars == <<events, users, conversations, lastTs, num_calls, last_reset, now,
          tempFiles, faults, coarse>>

----------------------------------------------------------------------------
(* Bounds of the model *)

MaxEvents == 2
MaxRateEvents == 6
MaxInFlight == 2
MaxTie == 2
MaxTime == 60
TickStep == 60

(* Program constants *)

Calls == 5
Period == 60
HistoryLimit == 10

Users == {"u1", "u2"}

----------------------------------------------------------------------------
(* Text helpers: what str.lower, str.startswith, str.strip, str.split and   *)
(* slicing do on the character sequences used here.                        *)

UpperChars == <<"A", "C", "H", "I", "S", "T", "W">>
LowerChars == <<"a", "c", "h", "i", "s", "t", "w">>

LowerCh(c) ==
    IF \E i \in DOMAIN UpperChars : UpperChars[i] = c
    THEN LowerChars[CHOOSE i \in DOMAIN UpperChars : UpperChars[i] = c]
    ELSE c

Lower(s) == [i \in DOMAIN s |-> LowerCh(s[i])]

StartsWith(s, p) == Len(s) >= Len(p) /\ SubSeq(s, 1, Len(p)) = p

IsSpace(c) == c = " "

RECURSIVE LStrip(_)
LStrip(s) == IF s # <<>> /\ IsSpace(Head(s)) THEN LStrip(Tail(s)) ELSE s

RECURSIVE RStrip(_)
RStrip(s) ==
    IF s # <<>> /\ IsSpace(s[Len(s)]) THEN RStrip(SubSeq(s, 1, Len(s) - 1)) ELSE s

Strip(s) == RStrip(LStrip(s))

\* s[n:] of Python
From(s, n) == SubSeq(s, n + 1, Len(s))

RECURSIVE SplitAcc(_, _, _)
SplitAcc(s, cur, acc) ==
    IF s = <<>>
    THEN IF cur = <<>> THEN acc ELSE Append(acc, cur)
    ELSE IF IsSpace(Head(s))
         THEN SplitAcc(Tail(s), <<>>, IF cur = <<>> THEN acc ELSE Append(acc, cur))
         ELSE SplitAcc(Tail(s), Append(cur, Head(s)), acc)

\* str.split(): the maximal runs of non-whitespace characters
Split(s) == SplitAcc(s, <<>>, <<>>)

----------------------------------------------------------------------------
(* The fixed strings of the program *)

\* The prefix of line 142 left empty: every text would be handled
T_AI_none == <<>>

T_AI == <<"!", "a", "i">>
T_SWITCH == <<"!", "s", "w", "i", "t", "c", "h">>
T_OPENAI == <<"o", "p", "e", "n", "a", "i">>
T_CLAUDE == <<"c", "l", "a", "u", "d", "e">>

ThrottleMsg == <<"You've reached the rate limit. Please try again later.">>
InvalidProviderMsg == <<"Invalid provider. Use 'openai' or 'claude'.">>
ApologyMsg ==
    <<"I'm sorry, but I encountered an error while processing your request. Please try again later.">>
PdfApologyMsg ==
    <<"I'm sorry, but I encountered an error while processing your PDF. Please try again later.">>
PdfProcessedMsg ==
    <<"I've processed the PDF you sent. You can now ask questions about its content.">>
PdfUploadMsg ==
    <<"I've uploaded a PDF. Please use its content as context for our conversation.">>

SwitchedMsg(new_provider) == <<"Switched to ">> \o new_provider

\* PdfContext with the f-string's placeholder left uninterpolated
PdfContext_literal(pdf_content) ==
    <<"The user has provided a PDF with the following content:\n\n">>
        \o <<"{pdf_content}">>
        \o <<"\n\nPlease use this information as context for the conversation.">>

PdfContext(pdf_content) ==
    <<"The user has provided a PDF with the following content:\n\n">>
        \o pdf_content
        \o <<"\n\nPlease use this information as context for the conversation.">>

----------------------------------------------------------------------------
(* check_rate_limit (lines 32-36): the function body is `pass`; what it does *)
(* is what its two decorators from the ratelimit package do.                *)
(* limits(calls, period) keeps ONE counter for the decorated function (the  *)
(* user_id argument is not part of it): a call after the period has elapsed *)
(* resets the counter and the period start, every call increments the       *)
(* counter, and a call that takes it above `calls` raises                   *)
(* RateLimitException(period_remaining).  sleep_and_retry catches that      *)
(* exception, time.sleep()s for period_remaining (blocking the event loop;  *)
(* the clock moves on by that much) and calls again.                        *)

Limits(nc, lr, t) ==
    LET period_remaining == Period - (t - lr)
        elapsed == period_remaining <= 0
        n == (IF elapsed THEN 0 ELSE nc) + 1
    IN  [raised |-> n > Calls,
         num_calls |-> n,
         last_reset |-> IF elapsed THEN t ELSE lr,
         period_remaining |-> period_remaining]

check_rate_limit(nc, lr, t) ==
    LET a == Limits(nc, lr, t)
        t2 == t + a.period_remaining
        b == Limits(a.num_calls, a.last_reset, t2)
    IN  IF ~a.raised
        THEN [raised |-> FALSE, num_calls |-> a.num_calls,
              last_reset |-> a.last_reset, now |-> t, slept |-> FALSE]
        ELSE [raised |-> b.raised, num_calls |-> b.num_calls,
              last_reset |-> b.last_reset, now |-> t2, slept |-> TRUE]

----------------------------------------------------------------------------
(* The SQLite tables *)

UserRowsOf(tbl, user_id) == {i \in DOMAIN tbl : tbl[i].id = user_id}

\* get_user_data without its INSERT: the default is returned and not stored
get_user_data_no_insert(tbl, user_id, ts) ==
    IF UserRowsOf(tbl, user_id) # {}
    THEN [table |-> tbl,
          provider |-> tbl[CHOOSE i \in UserRowsOf(tbl, user_id) :
                             \A j \in UserRowsOf(tbl, user_id) : i <= j].provider,
          created |-> FALSE]
    ELSE [table |-> tbl, provider |-> T_OPENAI, created |-> TRUE]

\* get_user_data: SELECT, and INSERT with provider "openai" when no row is found
get_user_data(tbl, user_id, ts) ==
    IF UserRowsOf(tbl, user_id) # {}
    THEN [table |-> tbl,
          provider |-> tbl[CHOOSE i \in UserRowsOf(tbl, user_id) :
                             \A j \in UserRowsOf(tbl, user_id) : i <= j].provider,
          created |-> FALSE]
    ELSE [table |-> Append(tbl, [id |-> user_id, provider |-> T_OPENAI,
                                 last_request |-> ts]),
          provider |-> T_OPENAI,
          created |-> TRUE]

\* update_user_data without its WHERE clause
update_user_data_all(tbl, user_id, provider, ts) ==
    [i \in DOMAIN tbl |-> [tbl[i] EXCEPT !.provider = provider, !.last_request = ts]]

\* update_user_data: UPDATE users SET provider, last_request WHERE id = ?
update_user_data(tbl, user_id, provider, ts) ==
    [i \in DOMAIN tbl |->
        IF tbl[i].id = user_id
        THEN [tbl[i] EXCEPT !.provider = provider, !.last_request = ts]
        ELSE tbl[i]]

\* add_to_conversation as INSERT OR REPLACE on the latest row
add_to_conversation_replace(rows, user_id, role, content, ts, ev) ==
    IF rows = <<>>
    THEN <<[id |-> 1, user_id |-> user_id, role |-> role,
            content |-> content, timestamp |-> ts, ev |-> ev]>>
    ELSE [rows EXCEPT ![Len(rows)] =
              [id |-> Len(rows), user_id |-> user_id, role |-> role,
               content |-> content, timestamp |-> ts, ev |-> ev]]

\* add_to_conversation: INSERT; `ev` (the inbound event the row was written
\* for) is not a column of the table, it only lets properties name the row.
add_to_conversation(rows, user_id, role, content, ts, ev) ==
    Append(rows, [id |-> Len(rows) + 1, user_id |-> user_id, role |-> role,
                  content |-> content, timestamp |-> ts, ev |-> ev])

\* The readings datetime.now() can give for the next INSERT: later than the
\* latest reading, or equal to it (two readings within the clock's granularity).
TsChoices(rows, last) ==
    LET tied == Cardinality({i \in DOMAIN rows : rows[i].timestamp = last})
    IN  {last + 1} \cup (IF coarse /\ 0 < tied /\ tied < MaxTie THEN {last} ELSE {})

RECURSIVE DescOrders(_, _, _)
\* ORDER BY timestamp DESC LIMIT n over the rows S: rows with equal timestamps
\* come in an order SQL leaves unspecified.
DescOrders(rows, S, n) ==
    IF S = {} \/ n = 0
    THEN {<<>>}
    ELSE UNION {{<<i>> \o rest : rest \in DescOrders(rows, S \ {i}, n - 1)} :
                i \in {j \in S : \A k \in S : rows[k].timestamp <= rows[j].timestamp}}

Reverse(s) == [i \in DOMAIN s |-> s[Len(s) + 1 - i]]

\* get_conversation_history without `WHERE user_id = ?`
HistoryRows_all(rows, user_id, limit) ==
    {[i \in DOMAIN o |-> rows[Reverse(o)[i]]] : o \in DescOrders(rows, DOMAIN rows, limit)}

\* The rows get_conversation_history can fetch, after the [::-1]
HistoryRows(rows, user_id, limit) ==
    {[i \in DOMAIN o |-> rows[Reverse(o)[i]]] :
        o \in DescOrders(rows, {i \in DOMAIN rows : rows[i].user_id = user_id}, limit)}

\* ... of which the function returns role and content
Turns(fetched) ==
    [i \in DOMAIN fetched |-> [role |-> fetched[i].role, content |-> fetched[i].content]]

get_conversation_history(rows, user_id, limit) ==
    {Turns(f) : f \in HistoryRows(rows, user_id, limit)}

----------------------------------------------------------------------------
(* get_ai_response, lines 76-99: from its call up to the provider call, the *)
(* first await that suspends.  The value is the set of outcomes: the new    *)
(* contents of the tables and of the limiter, and how the stretch ends:     *)
(*   "return"  the function returned `response` (lines 81, 92, 94)          *)
(*   "await"   the provider request is in flight (lines 103, 110)           *)
(*   "raise"   a SQLite operation raised; nothing in lines 83-99 catches it *)

\* The operations of lines 83-99 at which a sqlite3.Error can strike
FaultPoints ==
    IF faults
    THEN {"none", "get_user_data", "get_conversation_history", "update_user_data",
          "add_system", "add_user"}
    ELSE {"none"}

\* line 86-88: message.lower().startswith("!switch") and len(parts) > 1
IsSwitchCommand(message) ==
    StartsWith(Lower(message), T_SWITCH) /\ Len(Split(message)) > 1

\* line 89: parts[1].lower()
SwitchTarget(message) == Lower(Split(message)[2])

\* line 90 without the membership test
IsValidProvider_any(new_provider) == TRUE

\* line 90
IsValidProvider(new_provider) == new_provider \in {T_OPENAI, T_CLAUDE}

\* lines 105 and 109: conversation + [{"role": "user", "content": message}]
ProviderMessages(conversation, message) ==
    Append(conversation, [role |-> "user", content |-> message])

\* lines 96-99: the appends of a chat turn
ChatAppends(ev, user_id, message, pdf_content, st, f) ==
    LET withSystem == pdf_content # <<>>
        S1 == IF withSystem
              THEN {[rows |-> add_to_conversation(conversations, user_id, "system",
                                                  PdfContext(pdf_content), t, ev),
                     ts |-> t] : t \in TsChoices(conversations, lastTs)}
              ELSE {[rows |-> conversations, ts |-> lastTs]}
    IN  IF withSystem /\ f = "add_system"
        THEN {st}
        ELSE IF f = "add_user"
        THEN {[st EXCEPT !.conversations = s.rows, !.lastTs = s.ts] : s \in S1}
        ELSE UNION {{[st EXCEPT !.conversations =
                            add_to_conversation(s.rows, user_id, "user", message, t, ev),
                         !.lastTs = t,
                         !.result = "await"] : t \in TsChoices(s.rows, s.ts)} : s \in S1}

\* lines 86-99
AfterHistory(ev, user_id, message, pdf_content, st, f) ==
    IF IsSwitchCommand(message) /\ IsValidProvider(SwitchTarget(message))
    THEN IF f = "update_user_data"
         THEN {st}
         ELSE {[st EXCEPT !.users = update_user_data(st.users, user_id,
                                                     SwitchTarget(message), lastTs),
                          !.result = "return",
                          !.response = SwitchedMsg(SwitchTarget(message))]}
    ELSE IF IsSwitchCommand(message)
    THEN {[st EXCEPT !.result = "return", !.response = InvalidProviderMsg]}
    ELSE ChatAppends(ev, user_id, message, pdf_content, st, f)

\* lines 83-84
AfterAdmission(ev, user_id, message, pdf_content, st, f) ==
    IF f = "get_user_data"
    THEN {st}
    ELSE LET ud == get_user_data(users, user_id, lastTs)
             st1 == [st EXCEPT !.users = ud.table, !.created = ud.created,
                               !.provider = ud.provider]
         IN  IF f = "get_conversation_history"
             THEN {st1}
             ELSE UNION {AfterHistory(ev, user_id, message, pdf_content,
                                      [st1 EXCEPT !.conv = c], f) :
                         c \in HistoryRows(conversations, user_id, HistoryLimit)}

get_ai_response(ev, user_id, message, pdf_content) ==
    LET rl == check_rate_limit(num_calls, last_reset, now)
        st == [users |-> users, conversations |-> conversations, lastTs |-> lastTs,
               num_calls |-> rl.num_calls, last_reset |-> rl.last_reset,
               now |-> rl.now, slept |-> rl.slept, created |-> FALSE,
               provider |-> <<>>, conv |-> <<>>,
               result |-> "raise", response |-> <<>>]
    IN  IF rl.raised
        THEN {[st EXCEPT !.result = "return", !.response = ThrottleMsg]}
        ELSE UNION {AfterAdmission(ev, user_id, message, pdf_content, st, f) :
                    f \in FaultPoints}

----------------------------------------------------------------------------
(* Inbound messages *)

B_CHAT == <<"!", "a", "i", " ", "h", "i">>
B_SWITCH_CLAUDE ==
    <<"!", "a", "i", " ", "!", "S", "w", "i", "t", "c", "h", " ", "C", "l", "a", "u", "d", "e">>
B_SWITCH_OPENAI ==
    <<"!", "a", "i", " ", "!", "s", "w", "i", "t", "c", "h", " ", "o", "p", "e", "n", "a", "i">>
B_SWITCH_BAD == <<"!", "a", "i", " ", "!", "s", "w", "i", "t", "c", "h", " ", "b">>
B_SWITCH_BARE == <<"!", "a", "i", " ", "!", "s", "w", "i", "t", "c", "h">>
B_PLAIN == <<"h", "i">>
B_SWITCH_DIRECT == <<"!", "s", "w", "i", "t", "c", "h", " ", "c", "l", "a", "u", "d", "e">>

TextBodies ==
    {B_CHAT, B_SWITCH_CLAUDE, B_SWITCH_OPENAI, B_SWITCH_BAD, B_SWITCH_BARE, B_PLAIN,
     B_SWITCH_DIRECT}

\* A PDF document: whether PdfReader can read it, and the text of its pages
Documents ==
    {[readable |-> FALSE, text |-> <<>>],
     [readable |-> TRUE, text |-> <<>>],
     [readable |-> TRUE, text |-> <<"d">>]}

\* The completion a provider returns
AiText == <<"ok">>

NewEvent(user_id, kind, body, doc) ==
    [from |-> user_id, kind |-> kind, body |-> body, pdf |-> doc.text,
     readable |-> doc.readable, at |-> now,
     pc |-> "received",     \* received | calling | done | raised
     entered |-> FALSE,     \* get_ai_response was called
     msg |-> <<>>,          \* its argument `message`
     created |-> FALSE,     \* get_user_data inserted the users row
     provider |-> <<>>,     \* user_data["provider"]
     conv |-> <<>>,         \* the rows fetched for `conversation`
     outcome |-> "none",    \* none | ok | fail: how the provider call ended
     replied |-> FALSE, reply |-> <<>>,   \* message.reply(reply) was called
     slept |-> FALSE]       \* check_rate_limit slept

InFlight == {e \in DOMAIN events : events[e].pc \in {"received", "calling"}}

\* The state after lines 13-30 with a new user_data.db
Start ==
    /\ events = <<>>
    /\ users = <<>>
    /\ conversations = <<>>
    /\ lastTs = 0
    /\ num_calls = 0
    /\ last_reset = 0
    /\ now = 0
    /\ tempFiles = {}

Init == Start /\ faults = FALSE /\ coarse = FALSE

\* The tables, the limiter and the clock after get_ai_response's outcome r
Commit(r) ==
    /\ users' = r.users
    /\ conversations' = r.conversations
    /\ lastTs' = r.lastTs
    /\ num_calls' = r.num_calls
    /\ last_reset' = r.last_reset
    /\ now' = r.now

Entered(rec, message, r) ==
    [rec EXCEPT !.entered = TRUE, !.msg = message, !.created = r.created,
                !.provider = r.provider, !.conv = r.conv, !.slept = r.slept]

(* handle_message for a text message, lines 125 and 142-145, up to the      *)
(* provider call.  A body that does not start with "!ai" matches no branch: *)
(* the handler returns without a reply.                                     *)
ReceiveText(user_id, body, max) ==
    /\ Len(events) < max
    /\ Cardinality(InFlight) < MaxInFlight
    /\ LET e == Len(events) + 1
           rec == NewEvent(user_id, "text", body, [readable |-> FALSE, text |-> <<>>])
           query == Strip(From(body, 4))
       IN  IF StartsWith(body, T_AI)
           THEN \E r \in get_ai_response(e, user_id, query, <<>>) :
                   /\ Commit(r)
                   /\ events' = Append(events,
                        CASE r.result = "await" ->
                               [Entered(rec, query, r) EXCEPT !.pc = "calling"]
                          [] r.result = "return" ->
                               [Entered(rec, query, r) EXCEPT !.pc = "done",
                                    !.replied = TRUE, !.reply = r.response]
                          [] OTHER ->
                               [Entered(rec, query, r) EXCEPT !.pc = "raised"])
           ELSE /\ events' = Append(events, [rec EXCEPT !.pc = "done"])
                /\ UNCHANGED <<users, conversations, lastTs, num_calls, last_reset, now>>
    /\ UNCHANGED <<tempFiles, faults, coarse>>

\* extract_text_from_pdf with an except clause that returns what was read
extract_text_from_pdf_swallow(readable, text) ==
    [raised |-> FALSE, text |-> IF readable THEN text ELSE <<>>]

\* extract_text_from_pdf, lines 38-48: the text of the pages, or the
\* exception of PdfReader, logged and raised again
extract_text_from_pdf(readable, text) ==
    [raised |-> ~readable, text |-> IF readable THEN text ELSE <<>>]

(* handle_message for a PDF document, line 127-129: the handler starts and  *)
(* awaits message.downloadMedia().                                          *)
ReceiveDocument(user_id, doc, max) ==
    /\ Len(events) < max
    /\ Cardinality(InFlight) < MaxInFlight
    /\ events' = Append(events, NewEvent(user_id, "pdf", <<>>, doc))
    /\ UNCHANGED <<users, conversations, lastTs, num_calls, last_reset, now,
                   tempFiles, faults, coarse>>

(* lines 130-141, from the download's completion up to the provider call:   *)
(* the temporary file is written, extract_text_from_pdf reads it, os.unlink *)
(* (line 135) runs only when the extraction returned, and any exception     *)
(* ends in the PDF apology of line 141.                                     *)
HandleDocument(e) ==
    /\ e \in DOMAIN events
    /\ events[e].pc = "received"
    /\ LET rec == events[e]
           pdf_content == extract_text_from_pdf(rec.readable, rec.pdf)
       IN
       IF pdf_content.raised
       THEN /\ tempFiles' = tempFiles \cup {e}
            /\ events' = [events EXCEPT ![e] =
                              [rec EXCEPT !.pc = "done", !.replied = TRUE,
                                          !.reply = PdfApologyMsg]]
            /\ UNCHANGED <<users, conversations, lastTs, num_calls, last_reset, now>>
       ELSE /\ tempFiles' = tempFiles
            /\ \E r \in get_ai_response(e, rec.from, PdfUploadMsg, pdf_content.text) :
                   /\ Commit(r)
                   /\ events' = [events EXCEPT ![e] =
                        CASE r.result = "await" ->
                               [Entered(rec, PdfUploadMsg, r) EXCEPT !.pc = "calling"]
                          [] r.result = "return" ->
                               [Entered(rec, PdfUploadMsg, r) EXCEPT !.pc = "done",
                                    !.replied = TRUE, !.reply = PdfProcessedMsg]
                          [] OTHER ->
                               [Entered(rec, PdfUploadMsg, r) EXCEPT !.pc = "done",
                                    !.replied = TRUE, !.reply = PdfApologyMsg]]
    /\ UNCHANGED <<faults, coarse>>

(* get_ai_response, lines 101-121, from the provider's answer on, and the   *)
(* reply of line 138 or 145.  A failure of the provider or of the assistant *)
(* INSERT is caught at line 119.  The document branch replies with its own  *)
(* fixed string and drops `response`.                                       *)
ProviderReturn(e, ok, insertFails) ==
    /\ e \in DOMAIN events
    /\ events[e].pc = "calling"
    /\ LET rec == events[e]
           known == rec.provider \in {T_OPENAI, T_CLAUDE}
           stored == ok /\ known /\ ~insertFails
           response == IF stored THEN AiText ELSE ApologyMsg
       IN  /\ events' = [events EXCEPT ![e] =
                  [rec EXCEPT !.pc = "done",
                              !.conv = <<>>,
                              !.outcome = IF ok THEN "ok" ELSE "fail",
                              !.replied = TRUE,
                              !.reply = IF rec.kind = "pdf" THEN PdfProcessedMsg
                                        ELSE response]]
           /\ IF stored
              THEN \E t \in TsChoices(conversations, lastTs) :
                      /\ conversations' = add_to_conversation(conversations, rec.from,
                                                              "assistant", AiText, t, e)
                      /\ lastTs' = t
              ELSE UNCHANGED <<conversations, lastTs>>
    /\ UNCHANGED <<users, num_calls, last_reset, now, tempFiles, faults, coarse>>

\* The monotonic clock moves on
Tick ==
    /\ now + TickStep <= MaxTime
    /\ now' = now + TickStep
    /\ UNCHANGED <<events, users, conversations, lastTs, num_calls, last_reset,
                   tempFiles, faults, coarse>>

Next ==
    \/ \E u \in Users, b \in TextBodies : ReceiveText(u, b, MaxEvents)
    \/ \E u \in Users, d \in Documents : ReceiveDocument(u, d, MaxEvents)
    \/ \E e \in DOMAIN events : HandleDocument(e)
    \/ \E e \in DOMAIN events, ok \in BOOLEAN,
          insertFails \in (IF faults THEN BOOLEAN ELSE {FALSE}) :
            ProviderReturn(e, ok, insertFails)

\* Messages of every kind from two users, SQLite working, every reading of
\* datetime.now() later than the one before.  The monotonic clock stands
\* still: with at most MaxEvents calls the limiter never reaches its limit.
Spec == Init /\ [][Next]_vars

\* The same with a datetime.now() of coarse granularity: a reading can equal
\* the one before it
InitCoarse == Start /\ faults = FALSE /\ coarse = TRUE

SpecCoarse == InitCoarse /\ [][Next]_vars

\* As Spec, with SQLite operations that may raise
InitFaults == Start /\ faults = TRUE /\ coarse = FALSE

SpecFaults == InitFaults /\ [][Next]_vars

\* Chat requests only, enough of them to pass the limit, a running clock and
\* a provider that answers
NextRate ==
    \/ \E u \in Users : ReceiveText(u, B_CHAT, MaxRateEvents)
    \/ \E e \in DOMAIN events : ProviderReturn(e, TRUE, FALSE)
    \/ Tick

SpecRate == Init /\ [][NextRate]_vars

----------------------------------------------------------------------------
(* Vocabulary of the properties.  The classification of a message is        *)
(* restated here from the command surface, not taken from the operators     *)
(* that model the code.                                                     *)

\* The rows written for event e, in the order of their ids
RowsOf(e) ==
    LET Mine(r) == r.ev = e IN SelectSeq(conversations, Mine)

\* The rows of one user, in the order of their ids
TranscriptOf(user_id) ==
    LET Mine(r) == r.user_id = user_id IN SelectSeq(conversations, Mine)

\* p occurs in s
RECURSIVE Contains(_, _)
Contains(s, p) ==
    \/ StartsWith(s, p)
    \/ s # <<>> /\ Contains(Tail(s), p)

LastN(s, n) == IF Len(s) <= n THEN s ELSE SubSeq(s, Len(s) - n + 1, Len(s))

ProviderCalled(e) == events[e].pc = "calling" \/ events[e].outcome # "none"

\* A switch command: "!switch" in any case, followed by a target
SwitchWord(m) == Len(m) >= 7 /\ Lower(SubSeq(m, 1, 7)) = T_SWITCH
HasTarget(m) == Len(Split(m)) >= 2
TargetOf(m) == Lower(Split(m)[2])
ValidSwitch(m) == SwitchWord(m) /\ HasTarget(m) /\ TargetOf(m) \in {T_OPENAI, T_CLAUDE}
InvalidSwitch(m) == SwitchWord(m) /\ HasTarget(m) /\ TargetOf(m) \notin {T_OPENAI, T_CLAUDE}

\* The requests of a user that reached get_ai_response
RequestsOf(user_id) ==
    {e \in DOMAIN events : events[e].from = user_id /\ events[e].entered}

StoredProviders(user_id) == {users[i].provider : i \in UserRowsOf(users, user_id)}

----------------------------------------------------------------------------
(* C1: for a user issuing 6 chat requests within 60 seconds, the 6th        *)
(* request is answered with the throttle reply and exactly 5 provider calls *)
(* are made for that user.                                                  *)
C1_SixthRequestThrottled ==
    \A u \in Users : \A e \in RequestsOf(u) :
        (/\ Cardinality({d \in RequestsOf(u) : d < e}) = 5
         /\ \A d \in RequestsOf(u) : d < e => events[e].at - events[d].at < 60
         /\ \A d \in RequestsOf(u) : events[d].pc = "done")
        => /\ events[e].reply = ThrottleMsg
           /\ Cardinality({d \in RequestsOf(u) : ProviderCalled(d)}) = 5

(* C2: events of one user are serialized: the handling of an event (its     *)
(* rate check, history read and transcript writes) never begins while the   *)
(* provider call of another event of the same user is in flight.            *)
C2_SerializedPerUser ==
    [][\A e \in DOMAIN events' :
          (events'[e].entered /\ (e \notin DOMAIN events \/ ~events[e].entered))
          => \A d \in DOMAIN events :
                (d # e /\ events[d].from = events'[e].from)
                => events[d].pc # "calling"]_vars

(* C3: when the provider call of an event (text chat or document) fails,    *)
(* the transcript holds the user's turn of that event and no assistant turn *)
(* for it, and the reply sent is the generic apology.                       *)
C3_ProviderFailure ==
    \A e \in DOMAIN events :
        events[e].outcome = "fail"
        => /\ \E i \in DOMAIN RowsOf(e) : RowsOf(e)[i].role = "user"
           /\ \A i \in DOMAIN RowsOf(e) : RowsOf(e)[i].role # "assistant"
           /\ events[e].replied
           /\ events[e].reply = ApologyMsg

(* C4: a user id has at most one users row at any time; once an event of    *)
(* that id has been through get_user_data there is exactly one, created by  *)
(* exactly one event, and it holds provider "openai" until a valid switch   *)
(* command of that user is handled - also when several first-contact events *)
(* of the id are in flight together.                                        *)
C4_UserCreatedOnce ==
    \A u \in Users :
        /\ Cardinality(UserRowsOf(users, u)) <= 1
        /\ RequestsOf(u) # {}
           => /\ Cardinality(UserRowsOf(users, u)) = 1
              /\ Cardinality({e \in RequestsOf(u) : events[e].created}) = 1
        /\ \A e \in RequestsOf(u) : events[e].created => events[e].provider = T_OPENAI
        /\ (\A e \in RequestsOf(u) : ~ValidSwitch(events[e].msg))
           => StoredProviders(u) \subseteq {T_OPENAI}

\* Two first-contact documents of one user were being downloaded together and
\* both have been handled: one created the row, the other found it.
C4_Witness ==
    \E e1, e2 \in DOMAIN events :
        /\ e1 # e2
        /\ events[e1].from = events[e2].from
        /\ events[e1].kind = "pdf" /\ events[e2].kind = "pdf"
        /\ events[e1].pc = "calling" /\ events[e2].pc = "calling"
        /\ events[e2].created /\ ~events[e1].created
        /\ Cardinality(UserRowsOf(users, events[e1].from)) = 1

(* C5: the temporary file of a document is gone once handle_message has     *)
(* finished with the event, whatever the outcome of the extraction.         *)
C5_TempFileReleased ==
    \A e \in DOMAIN events :
        events[e].pc \in {"done", "raised"} => e \notin tempFiles

(* C6: no failure leaves handle_message as an exception: every event that   *)
(* was handled ends with a reply string, never with a raised exception.     *)
C6_NoExceptionEscapes ==
    \A e \in DOMAIN events :
        /\ events[e].pc # "raised"
        /\ (events[e].entered /\ events[e].pc = "done") => events[e].replied

(* C7: handling a switch command whose target is neither openai nor claude  *)
(* changes no users row that existed (a first contact still gets its row,   *)
(* with the default provider), leaves the transcript as it was, makes no    *)
(* provider call, and replies with the validation error.                    *)
C7_InvalidSwitchNoEffect ==
    [][\A e \in DOMAIN events' :
          (/\ events'[e].entered
           /\ e \notin DOMAIN events \/ ~events[e].entered
           /\ InvalidSwitch(events'[e].msg))
          => /\ conversations' = conversations
             /\ Len(users') >= Len(users)
             /\ \A i \in DOMAIN users : users'[i] = users[i]
             /\ \A i \in DOMAIN users' \ DOMAIN users : users'[i].provider = T_OPENAI
             /\ events'[e].pc = "done"
             /\ events'[e].outcome = "none"
             /\ events'[e].replied
             /\ events'[e].reply = InvalidProviderMsg]_vars

\* A user who had switched to claude sent an invalid switch command
C7_Witness ==
    \E e1, e2 \in DOMAIN events :
        /\ e1 < e2
        /\ events[e1].from = events[e2].from
        /\ ValidSwitch(events[e1].msg) /\ TargetOf(events[e1].msg) = T_CLAUDE
        /\ events[e2].entered /\ InvalidSwitch(events[e2].msg)
        /\ events[e2].pc = "done"
        /\ StoredProviders(events[e2].from) = {T_CLAUDE}

(* C8: once a user has sent valid switch commands, the stored provider is   *)
(* the target of the last of them, each was answered with its confirmation, *)
(* and no transcript row was written for any of them.  (Text messages are   *)
(* handled in their order of arrival, so the last is the one with the       *)
(* highest event number.)                                                   *)
C8_LastSwitchWins ==
    \A u \in Users :
        LET S == {e \in RequestsOf(u) : ValidSwitch(events[e].msg)}
            last == CHOOSE e \in S : \A d \in S : d <= e
        IN  /\ S # {} => StoredProviders(u) = {TargetOf(events[last].msg)}
            /\ \A e \in S : /\ RowsOf(e) = <<>>
                            /\ ~ProviderCalled(e)
                            /\ events[e].reply = SwitchedMsg(TargetOf(events[e].msg))

\* "!switch claude" and then "!switch openai" from one user
C8_Witness ==
    \E e1, e2 \in DOMAIN events :
        /\ e1 < e2
        /\ events[e1].from = events[e2].from
        /\ ValidSwitch(events[e1].msg) /\ TargetOf(events[e1].msg) = T_CLAUDE
        /\ ValidSwitch(events[e2].msg) /\ TargetOf(events[e2].msg) = T_OPENAI
        /\ StoredProviders(events[e2].from) = {T_OPENAI}

(* C9: whatever timestamps the appends received, get_conversation_history   *)
(* (user, limit) returns exactly the last min(k, limit) of the k messages   *)
(* appended for the user, oldest first; nothing for an unseen user.         *)
C9_HistoryInAppendOrder ==
    \A u \in Users : \A limit \in 1..HistoryLimit :
        get_conversation_history(conversations, u, limit)
            = {LastN(Turns(TranscriptOf(u)), limit)}

\* The rows of event e's user that were stored before e wrote its own
StoredBefore(e) ==
    LET Earlier(r) ==
            /\ r.user_id = events[e].from
            /\ \A i \in DOMAIN conversations :
                  conversations[i].ev = e => r.id < conversations[i].id
    IN  SelectSeq(conversations, Earlier)

\* What C10 says of the document event e, whose extraction gave events[e].pdf
DocumentTurn(e) ==
    /\ Len(RowsOf(e)) >= 2
    /\ RowsOf(e)[1].role = "system"
    /\ Contains(RowsOf(e)[1].content, events[e].pdf)
    /\ RowsOf(e)[2].role = "user"
    /\ RowsOf(e)[2].content = events[e].msg
    /\ RowsOf(e)[2].id = RowsOf(e)[1].id + 1
    /\ events[e].pc = "calling"
       => LET sent == ProviderMessages(Turns(events[e].conv), events[e].msg)
          IN  /\ sent[Len(sent)] = [role |-> "user", content |-> events[e].msg]
              /\ Len(events[e].conv) = Len(LastN(StoredBefore(e), HistoryLimit))
              /\ \A i \in DOMAIN events[e].conv :
                    /\ events[e].conv[i].ev # e
                    /\ \E j \in DOMAIN StoredBefore(e) :
                          StoredBefore(e)[j] = events[e].conv[i]

(* C10 as stated: after a successful extraction producing text T, handled   *)
(* with the query Q, the transcript holds a system message containing T     *)
(* and then a user message equal to Q, and the provider is sent the window  *)
(* read before these appends, followed by Q.                                *)
C10_DocumentTurnAnyText ==
    \A e \in DOMAIN events :
        (events[e].kind = "pdf" /\ events[e].entered) => DocumentTurn(e)

(* C10, amended: the same for an extraction that produced a non-empty text. *)
C10_DocumentTurn ==
    \A e \in DOMAIN events :
        (events[e].kind = "pdf" /\ events[e].entered /\ events[e].pdf # <<>>)
        => DocumentTurn(e)

\* A document with text is in its provider call, for a user with history
C10_Witness ==
    \E e \in DOMAIN events :
        /\ events[e].kind = "pdf" /\ events[e].pdf # <<>>
        /\ events[e].pc = "calling"
        /\ events[e].conv # <<>>

(* C11: admission is evaluated without waiting: no handler lets time pass   *)
(* while it holds the event loop, so the handling of an event never moves   *)
(* the clock to the end of a rate window (which would stall every other     *)
(* user's events until then).                                               *)
C11_AdmissionWithoutWaiting ==
    [][events' # events => now' = now]_vars

(* C12: an event whose admission is to be refused (its user made 5 requests *)
(* in the 60 seconds before it) is answered with the throttle message,      *)
(* creates no users row, appends nothing and makes no provider call.        *)
C12_ThrottledMutatesNothing ==
    \A e \in DOMAIN events :
        (/\ events[e].entered
         /\ Cardinality({d \in RequestsOf(events[e].from) :
                            d < e /\ events[e].at - events[d].at < Period}) >= Calls)
        => /\ events[e].pc = "done"
           /\ events[e].reply = ThrottleMsg
           /\ ~events[e].created
           /\ RowsOf(e) = <<>>
           /\ ~ProviderCalled(e)

\* The text commands as the command surface writes them
BodyStartsAi(body) == Len(body) >= 3 /\ SubSeq(body, 1, 3) = <<"!", "a", "i">>

\* handle_message is through with event e
Handled(e) == events[e].pc \in {"done", "raised"}

(* C13: every inbound event, a text of any content or a document, results  *)
(* in one reply: once handle_message is through with the event, a reply     *)
(* string has been sent for it.                                             *)
C13_EveryEventReplied ==
    \A e \in DOMAIN events : Handled(e) => events[e].replied

C15_SwitchNeverChats ==
    \A e \in DOMAIN events :
        (events[e].entered /\ SwitchWord(events[e].msg))
        => /\ RowsOf(e) = <<>>
           /\ ~ProviderCalled(e)

(* C16: the rate limit is per user: a request of a user who made fewer than *)
(* 5 requests in the 60 seconds before it is neither rejected nor delayed,  *)
(* whatever the other users sent.                                           *)
C16_LimitPerUser ==
    \A e \in DOMAIN events :
        (/\ events[e].entered
         /\ Cardinality({d \in RequestsOf(events[e].from) :
                            d < e /\ events[e].at - events[d].at < Period}) < Calls)
        => /\ ~events[e].slept
           /\ events[e].reply # ThrottleMsg

(* C17: in every provider request the turns sent are the user's up to 10    *)
(* most recent stored messages as they were before the event appended       *)
(* anything, in the order they were stored, followed by the new user        *)
(* message once, as the last turn.                                          *)
C17_WindowThenNewTurn ==
    \A e \in DOMAIN events :
        (events[e].entered /\ events[e].pc = "calling")
        => ProviderMessages(Turns(events[e].conv), events[e].msg)
             = Append(LastN(Turns(StoredBefore(e)), HistoryLimit),
                      [role |-> "user", content |-> events[e].msg])

\* The rows of one user in the table `rows`, in the order of their ids
TranscriptIn(rows, user_id) ==
    LET Mine(r) == r.user_id = user_id IN SelectSeq(rows, Mine)

IsPrefix(s, t) == Len(s) <= Len(t) /\ SubSeq(t, 1, Len(s)) = s

(* C18: the transcript is an append-only log: every step leaves each user's *)
(* transcript a prefix of what it is afterwards (so the transcript of any   *)
(* earlier state is a prefix of that of any later state), and no stored row *)
(* is deleted, moved or modified.                                           *)
C18_AppendOnly ==
    [][/\ IsPrefix(conversations, conversations')
       /\ \A u \in Users :
             IsPrefix(TranscriptIn(conversations, u), TranscriptIn(conversations', u))]_vars

\* Two events of one user have written rows, the answer to the first after
\* the turn of the second
C18_Witness ==
    \E e1, e2 \in DOMAIN events :
        /\ e1 < e2
        /\ events[e1].from = events[e2].from
        /\ RowsOf(e1) # <<>> /\ RowsOf(e2) # <<>>
        /\ RowsOf(e1)[Len(RowsOf(e1))].role = "assistant"
        /\ RowsOf(e1)[Len(RowsOf(e1))].id > RowsOf(e2)[1].id
        /\ Len(TranscriptOf(events[e1].from)) >= 3

\* The reply of line 141, as the user reads it
PdfApologyText ==
    <<"I'm sorry, but I encountered an error while processing your PDF. Please try again later.">>

(* C19: when the extraction of a document fails, the event writes nothing:  *)
(* the step that handles it leaves the transcript and the users table as    *)
(* they were, no row is ever stored for the event, no provider call is made *)
(* for it, and its reply is the PDF apology.                                *)
C19_ExtractionFailure ==
    [][\A e \in DOMAIN events' :
          (/\ events'[e].kind = "pdf"
           /\ ~events'[e].readable
           /\ events'[e].pc # "received")
          => /\ \A i \in DOMAIN conversations' : conversations'[i].ev # e
             /\ ~events'[e].entered
             /\ events'[e].pc = "done"
             /\ events'[e].outcome = "none"
             /\ events'[e].replied
             /\ events'[e].reply = PdfApologyText
             /\ (e \in DOMAIN events /\ events[e].pc = "received")
                => /\ conversations' = conversations
                   /\ users' = users]_vars

\* An unreadable document of a user with a transcript got the PDF apology
C19_Witness ==
    \E e \in DOMAIN events :
        /\ events[e].kind = "pdf" /\ ~events[e].readable
        /\ events[e].pc = "done"
        /\ events[e].reply = PdfApologyText
        /\ TranscriptOf(events[e].from) # <<>>

\* The users rows of one user in the table `tbl`
UsersIn(tbl, user_id) == {tbl[i] : i \in {j \in DOMAIN tbl : tbl[j].id = user_id}}

\* The events a step acted on: those it received or moved on
Acted(e) == e \notin DOMAIN events \/ events'[e] # events[e]

(* C20: users are isolated in the store: a step taken for an event of user  *)
(* A leaves every other user's users row (its provider) and transcript as   *)
(* they were, and the window read for an event holds only rows whose        *)
(* user_id is that of the event's user.                                     *)
C20_UsersIsolated ==
    [][\A e \in DOMAIN events' :
          /\ Acted(e)
             => \A u \in Users \ {events'[e].from} :
                   /\ UsersIn(users', u) = UsersIn(users, u)
                   /\ TranscriptIn(conversations', u) = TranscriptIn(conversations, u)
          /\ \A i \in DOMAIN events'[e].conv :
                events'[e].conv[i].user_id = events'[e].from]_vars

\* An event of one user is with the provider, its window empty, while the
\* table holds rows of the other user
C20_Witness ==
    \E e1, e2 \in DOMAIN events :
        /\ e1 < e2
        /\ events[e1].from # events[e2].from
        /\ TranscriptOf(events[e1].from) # <<>>
        /\ events[e2].pc = "calling"
        /\ events[e2].conv = <<>>
        /\ Len(TranscriptOf(events[e2].from)) >= 1

====
